---- MODULE Spec2Model ----
(***************************************************************************)
(* Model of src/src/analytics.py: the ProjectAnalytics engine              *)
(* (SPI/CPI calculators, composite risk score, health classification,      *)
(* per-project orchestration with its metrics_cache, portfolio             *)
(* aggregation).                                                           *)
(*                                                                         *)
(* Number representation (Python floats become exact scaled integers):     *)
(*   - raw inputs (earned_value, planned_value, actual_cost, variances,    *)
(*     risk factors, team_utilization, completion_percentage) are          *)
(*     integers;                                                           *)
(*   - SPI and CPI, which the code rounds to 3 decimals, are integers in   *)
(*     thousandths (1.0 is 1000);                                          *)
(*   - the risk score, which the code rounds to 1 decimal, is an integer   *)
(*     in tenths (100.0 is 1000);                                          *)
(*   - the health score is kept in fiftieths of a point, the unit in       *)
(*     which 20 * (1 - risk_score / 100) is exact for a risk score in      *)
(*     tenths (75 points are 3750);                                        *)
(*   - a mean is the exact fraction [num, den] in lowest terms.            *)
(* An argument is a tagged value: Num(n) for a number, Str for a value     *)
(* that is not a number (a string), so that the TypeError paths of the     *)
(* code exist in the model.  A raised exception is the value Raised, the   *)
(* Python None is None and an empty dict is EmptyDict.                     *)
(***************************************************************************)
EXTENDS Integers, Sequences, FiniteSets, TLC

VARIABLES metrics_cache, log, now, last, input

vars == <<metrics_cache, log, now, last, input>>

-----------------------------------------------------------------------------
(* Values *)

Num(n) == [num |-> n]

Str == [str |-> TRUE]

Raised == [raise |-> TRUE]

None == [none |-> TRUE]

EmptyDict == [k \in {} |-> 0]

IsNum(v) == "num" \in DOMAIN v

Val(v) == v.num

Abs(n) == IF n < 0 THEN -n ELSE n

Min(a, b) == IF a <= b THEN a ELSE b

Max(a, b) == IF a >= b THEN a ELSE b

(* round(n / d) to an integer, ties to even, as Python's round() does on a *)
(* value that is exactly representable; d # 0.  (A decimal tie that is not *)
(* exactly representable in binary, such as 10 / 800 = 0.0125, rounds by   *)
(* its binary value; the inputs drawn below produce none.)                 *)
RoundHalfEven(n, d) ==
  LET nn == IF d < 0 THEN -n ELSE n
      dd == Abs(d)
      q == nn \div dd
      r == nn - q * dd
  IN IF 2 * r > dd \/ (2 * r = dd /\ q % 2 = 1) THEN q + 1 ELSE q

RECURSIVE Gcd(_, _)
Gcd(a, b) == IF b = 0 THEN a ELSE Gcd(b, a % b)

RECURSIVE SumSeq(_)
SumSeq(s) == IF s = <<>> THEN 0 ELSE Head(s) + SumSeq(Tail(s))

(* np.mean of a non-empty list of numbers: the exact fraction. *)
Mean(s) ==
  LET t == SumSeq(s)
      g == Gcd(Abs(t), Len(s))
  IN [num |-> t \div g, den |-> Len(s) \div g]

-----------------------------------------------------------------------------
(* Constants of the module, analytics.py:23-26 (thousandths). *)

SCHEDULE_THRESHOLD_YELLOW == 950

SCHEDULE_THRESHOLD_RED == 850

COST_THRESHOLD_YELLOW == 900

COST_THRESHOLD_RED == 750

-----------------------------------------------------------------------------
(* 4.1 Index calculators *)

(* earned_value / planned_value rounded to 3 decimals, in thousandths.  A  *)
(* planned_value that is the number 0 returns 0.0 before anything is       *)
(* divided; a non-numeric operand of the division raises TypeError.        *)
calculate_schedule_performance_index(earned_value, planned_value) ==
  IF IsNum(planned_value) /\ Val(planned_value) = 0 THEN Num(0)
  ELSE IF ~IsNum(earned_value) \/ ~IsNum(planned_value) THEN Raised
  ELSE Num(RoundHalfEven(1000 * Val(earned_value), Val(planned_value)))

calculate_cost_performance_index(earned_value, actual_cost) ==
  IF IsNum(actual_cost) /\ Val(actual_cost) = 0 THEN Num(0)
  ELSE IF ~IsNum(earned_value) \/ ~IsNum(actual_cost) THEN Raised
  ELSE Num(RoundHalfEven(1000 * Val(earned_value), Val(actual_cost)))

-----------------------------------------------------------------------------
(* 4.3 Health classification *)

SchedulePoints(spi) ==
  IF spi >= 1000 THEN 40
  ELSE IF spi >= SCHEDULE_THRESHOLD_YELLOW THEN 25
  ELSE IF spi >= SCHEDULE_THRESHOLD_RED THEN 10
  ELSE 0

CostPoints(cpi) ==
  IF cpi >= 1000 THEN 40
  ELSE IF cpi >= COST_THRESHOLD_YELLOW THEN 25
  ELSE IF cpi >= COST_THRESHOLD_RED THEN 10
  ELSE 0

(* max(0, 20 * (1 - risk_score / 100)) in fiftieths of a point. *)
RiskAdjustment(risk_score) == Max(0, 1000 - risk_score)

(* score, in fiftieths of a point. *)
HealthScore(spi, cpi, risk_score) ==
  50 * (SchedulePoints(spi) + CostPoints(cpi)) + RiskAdjustment(risk_score)

(* Mutant: the tier boundary made exclusive. *)
HealthStatus_Strict(score) ==
  IF score > 3750 THEN "Green"
  ELSE IF score >= 2500 THEN "Yellow"
  ELSE "Red"

HealthStatus(score) ==
  IF score >= 3750 THEN "Green"
  ELSE IF score >= 2500 THEN "Yellow"
  ELSE "Red"

(* int(score).  The binary product 20 * (1 - risk_score / 100) is the      *)
(* exact value for every risk score in tenths from -200.0 to 200.0 but     *)
(* two: it is 3.999999999999999 for 80.0 and 1.9999999999999996 for 90.0,  *)
(* and int() then truncates to one less when no tier points are added.     *)
HealthPercentage(spi, cpi, risk_score) ==
  LET score == HealthScore(spi, cpi, risk_score)
      loss == IF SchedulePoints(spi) + CostPoints(cpi) = 0
                 /\ risk_score \in {800, 900} THEN 1 ELSE 0
  IN (score \div 50) - loss

calculate_project_health(spi, cpi, risk_score) ==
  [status |-> HealthStatus(HealthScore(spi, cpi, risk_score)),
   percentage |-> HealthPercentage(spi, cpi, risk_score)]

-----------------------------------------------------------------------------
(* 4.2 Risk scoring *)

RECURSIVE AllNum(_)
AllNum(s) == IF s = <<>> THEN TRUE ELSE IsNum(Head(s)) /\ AllNum(Tail(s))

RECURSIVE SumVals(_)
SumVals(s) == IF s = <<>> THEN 0 ELSE Val(Head(s)) + SumVals(Tail(s))

(* The weighted sum base_score, as the fraction RiskBase / RiskDen of a    *)
(* tenth: 0.3 * schedule_risk + 0.3 * cost_risk + 0.4 * mean(factors),     *)
(* the last term only for a non-empty list.                                *)
RiskDen(risk_factors) == IF risk_factors = <<>> THEN 1 ELSE Len(risk_factors)

RiskBase(schedule_variance, cost_variance, risk_factors) ==
  LET schedule_risk == Min(100, Abs(schedule_variance) * 10)
      cost_risk == Min(100, Abs(cost_variance) * 10)
  IN 3 * (schedule_risk + cost_risk) * RiskDen(risk_factors)
       + 4 * SumVals(risk_factors)

(* final_score = min(100, base_score), rounded to 1 decimal, in tenths.    *)
(* abs() of a non-number and np.mean of a list holding a non-number raise. *)
calculate_risk_score(schedule_variance, cost_variance, risk_factors) ==
  IF ~IsNum(schedule_variance) \/ ~IsNum(cost_variance) THEN Raised
  ELSE IF ~AllNum(risk_factors) THEN Raised
  ELSE LET den == RiskDen(risk_factors)
           base == RiskBase(Val(schedule_variance), Val(cost_variance),
                            risk_factors)
       IN Num(RoundHalfEven(Min(1000 * den, base), den))

-----------------------------------------------------------------------------
(* 4.4 Per-project orchestration *)

(* kwargs.get(key, default) *)
Get(kwargs, key, default) ==
  IF key \in DOMAIN kwargs THEN kwargs[key] ELSE default

(* Mutant: the guard written ac >= 0, so a zero cost reaches the sentinel. *)
MetricsCpi_NonNegative(ev, ac) ==
  IF ~IsNum(ac) THEN Raised
  ELSE IF Val(ac) >= 0 THEN calculate_cost_performance_index(ev, ac)
  ELSE Num(1000)

(* cpi = calculate_cost_performance_index(ev, ac) if ac > 0 else 1.0;      *)
(* comparing a non-number with 0 raises TypeError.                         *)
MetricsCpi(ev, ac) ==
  IF ~IsNum(ac) THEN Raised
  ELSE IF Val(ac) > 0 THEN calculate_cost_performance_index(ev, ac)
  ELSE Num(1000)

(* ProjectMetrics(...) of analytics.py:227-238, from the computed indices  *)
(* and risk score; an exception in any of them leaves the try block.       *)
BuildMetrics(project_id, kwargs, t, spi, cpi, risk_score) ==
  IF spi = Raised \/ cpi = Raised \/ risk_score = Raised THEN Raised
  ELSE [project_id |-> project_id,
        schedule_performance_index |-> Val(spi),
        cost_performance_index |-> Val(cpi),
        budget_variance |-> Get(kwargs, "cost_variance", Num(0)),
        schedule_variance |-> Get(kwargs, "schedule_variance", Num(0)),
        risk_score |-> Val(risk_score),
        team_utilization |-> Get(kwargs, "team_utilization", Num(0)),
        completion_percentage |-> Get(kwargs, "completion_percentage", Num(0)),
        health_status |->
          calculate_project_health(Val(spi), Val(cpi), Val(risk_score)).status,
        calculated_at |-> t]

(* The body of the try block of calculate_metrics up to the construction   *)
(* of the record: Raised, or the ProjectMetrics stamped with the time t.   *)
ComputeMetrics(project_id, kwargs, t) ==
  BuildMetrics(project_id, kwargs, t,
    calculate_schedule_performance_index(
      Get(kwargs, "earned_value", Num(0)),
      Get(kwargs, "planned_value", Num(100))),
    MetricsCpi(Get(kwargs, "earned_value", Num(0)),
               Get(kwargs, "actual_cost", Num(0))),
    calculate_risk_score(Get(kwargs, "schedule_variance", Num(0)),
                         Get(kwargs, "cost_variance", Num(0)),
                         Get(kwargs, "risk_factors", <<>>)))

(* Mutant: setdefault instead of assignment, the first record is kept. *)
CachePut_KeepFirst(cache, project_id, metrics) ==
  [k \in DOMAIN cache \cup {project_id} |->
     IF k \in DOMAIN cache THEN cache[k] ELSE metrics]

(* self.metrics_cache[project_id] = metrics *)
CachePut(cache, project_id, metrics) ==
  [k \in DOMAIN cache \cup {project_id} |->
     IF k = project_id THEN metrics ELSE cache[k]]

(* self.metrics_cache.get(project_id) *)
CacheGet(cache, project_id) ==
  IF project_id \in DOMAIN cache THEN cache[project_id] ELSE None

(* Mutant: the risk score never falls below the cached record's. *)
StoreMetrics_Ratchet(st, project_id, kwargs, m) ==
  IF m = Raised
  THEN [st |-> [st EXCEPT !.log = Append(@, [id |-> project_id,
                                             data |-> kwargs, ret |-> m])],
        ret |-> Raised]
  ELSE [st |-> [cache |->
                  CachePut(st.cache, project_id,
                    [m EXCEPT !.risk_score =
                       IF project_id \in DOMAIN st.cache
                       THEN Max(@, st.cache[project_id].risk_score) ELSE @]),
                log |->
                  Append(st.log,
                    [id |-> project_id, data |-> kwargs,
                     ret |-> [m EXCEPT !.risk_score =
                                IF project_id \in DOMAIN st.cache
                                THEN Max(@, st.cache[project_id].risk_score)
                                ELSE @]]),
                now |-> st.now + 1],
        ret |-> [m EXCEPT !.risk_score =
                   IF project_id \in DOMAIN st.cache
                   THEN Max(@, st.cache[project_id].risk_score) ELSE @]]

(* Mutant: a failed computation drops the id's entry from the cache. *)
StoreMetrics_Invalidate(st, project_id, kwargs, m) ==
  IF m = Raised
  THEN [st |-> [cache |-> [k \in DOMAIN st.cache \ {project_id} |->
                             st.cache[k]],
                log |-> Append(st.log, [id |-> project_id, data |-> kwargs,
                                        ret |-> m]),
                now |-> st.now],
        ret |-> Raised]
  ELSE [st |-> [cache |-> CachePut(st.cache, project_id, m),
                log |-> Append(st.log, [id |-> project_id, data |-> kwargs,
                                        ret |-> m]),
                now |-> st.now + 1],
        ret |-> m]

(* The end of calculate_metrics for the computed m: the cache write and    *)
(* the return, or the re-raise that leaves the cache alone.  The log       *)
(* records every invocation; the clock is read once per record built and   *)
(* each reading is later than the one before.                              *)
StoreMetrics(st, project_id, kwargs, m) ==
  IF m = Raised
  THEN [st |-> [st EXCEPT !.log = Append(@, [id |-> project_id,
                                             data |-> kwargs, ret |-> m])],
        ret |-> Raised]
  ELSE [st |-> [cache |-> CachePut(st.cache, project_id, m),
                log |-> Append(st.log, [id |-> project_id, data |-> kwargs,
                                        ret |-> m]),
                now |-> st.now + 1],
        ret |-> m]

(* One invocation of calculate_metrics on the engine state                 *)
(* st = [cache, log, now]: the state after it and what it returned.        *)
RunMetrics(st, project_id, kwargs) ==
  StoreMetrics(st, project_id, kwargs,
               ComputeMetrics(project_id, kwargs, st.now))

-----------------------------------------------------------------------------
(* 4.5 Portfolio aggregation *)

(* The body of the for loop for one element, given what calculate_metrics  *)
(* did (r): the appends and the Red count, or the exception leaving.       *)
PortfolioStep(acc, r) ==
  IF r.ret = Raised
  THEN [acc EXCEPT !.st = r.st, !.raised = TRUE]
  ELSE [st |-> r.st,
        raised |-> FALSE,
        health_scores |-> Append(acc.health_scores, r.ret.risk_score),
        utilizations |-> Append(acc.utilizations, r.ret.team_utilization),
        schedule_indices |->
          Append(acc.schedule_indices, r.ret.schedule_performance_index),
        at_risk_count |->
          IF r.ret.health_status = "Red"
          THEN acc.at_risk_count + 1 ELSE acc.at_risk_count]

(* Mutant: a failing project is skipped and the loop goes on. *)
RECURSIVE PortfolioLoop_Continue(_, _, _)
PortfolioLoop_Continue(acc, projects, i) ==
  IF i > Len(projects) THEN acc
  ELSE PortfolioLoop_Continue(
         PortfolioStep(acc, RunMetrics(acc.st, projects[i].id,
                                       projects[i].data)),
         projects, i + 1)

(* The for loop of calculate_portfolio_metrics from element i on; it stops *)
(* at the first invocation that raises.                                    *)
RECURSIVE PortfolioLoop(_, _, _)
PortfolioLoop(acc, projects, i) ==
  IF i > Len(projects) \/ acc.raised THEN acc
  ELSE PortfolioLoop(
         PortfolioStep(acc, RunMetrics(acc.st, projects[i].id,
                                       projects[i].data)),
         projects, i + 1)

(* Mutant: total_projects counts the distinct ids. *)
PortfolioSummary_DistinctIds(acc, projects) ==
  IF acc.raised \/ ~AllNum(acc.utilizations) THEN Raised
  ELSE [total_projects |->
          Cardinality({projects[k].id : k \in 1..Len(projects)}),
        avg_health_score |-> Mean(acc.health_scores),
        at_risk_count |-> acc.at_risk_count,
        avg_budget_utilization |->
          Mean([k \in 1..Len(acc.utilizations) |-> Val(acc.utilizations[k])]),
        avg_schedule_health |-> Mean(acc.schedule_indices)]

(* The summary built after the loop; np.mean of the utilizations raises    *)
(* when one of them is not a number (calculate_metrics passes              *)
(* team_utilization through unexamined).                                   *)
PortfolioSummary(acc, projects) ==
  IF acc.raised \/ ~AllNum(acc.utilizations) THEN Raised
  ELSE [total_projects |-> Len(projects),
        avg_health_score |-> Mean(acc.health_scores),
        at_risk_count |-> acc.at_risk_count,
        avg_budget_utilization |->
          Mean([k \in 1..Len(acc.utilizations) |-> Val(acc.utilizations[k])]),
        avg_schedule_health |-> Mean(acc.schedule_indices)]

PortfolioResult(acc, projects) ==
  [st |-> acc.st, ret |-> PortfolioSummary(acc, projects)]

(* Mutant: no early return, the zero-initialised summary comes back. *)
RunPortfolio_NoEarlyReturn(st, projects) ==
  IF projects = <<>>
  THEN [st |-> st,
        ret |-> [total_projects |-> 0, avg_health_score |-> 0,
                 at_risk_count |-> 0, avg_budget_utilization |-> 0,
                 avg_schedule_health |-> 0]]
  ELSE PortfolioResult(
         PortfolioLoop([st |-> st, raised |-> FALSE, health_scores |-> <<>>,
                        utilizations |-> <<>>, schedule_indices |-> <<>>,
                        at_risk_count |-> 0],
                       projects, 1),
         projects)

(* calculate_portfolio_metrics on the engine state st: the state after it  *)
(* and what it returned (Raised when an exception left it).                *)
RunPortfolio(st, projects) ==
  IF projects = <<>> THEN [st |-> st, ret |-> EmptyDict]
  ELSE PortfolioResult(
         PortfolioLoop([st |-> st, raised |-> FALSE, health_scores |-> <<>>,
                        utilizations |-> <<>>, schedule_indices |-> <<>>,
                        at_risk_count |-> 0],
                       projects, 1),
         projects)

-----------------------------------------------------------------------------
(* Bounds and inputs *)

MaxCalls == 3

MaxBatch == 2

MaxFactors == 2

Ids == {"P1", "P2"}

(* The example of the module's __main__ block (analytics.py:310-320);      *)
(* completion_percentage and team_utilization in hundredths.               *)
SampleData ==
  [earned_value |-> Num(750), planned_value |-> Num(800),
   actual_cost |-> Num(120000), schedule_variance |-> Num(-50),
   cost_variance |-> Num(-5000), completion_percentage |-> Num(9375),
   team_utilization |-> Num(85),
   risk_factors |-> <<Num(25), Num(30), Num(20)>>]

GoodData ==
  [earned_value |-> Num(105), planned_value |-> Num(100),
   actual_cost |-> Num(100), team_utilization |-> Num(70),
   risk_factors |-> <<Num(10)>>]

(* earned_value is not a number: the division raises. *)
BadData == [earned_value |-> Str, actual_cost |-> Num(50)]

(* team_utilization is not a number: nothing in calculate_metrics uses it. *)
TextUtilData == [earned_value |-> Num(100), team_utilization |-> Str]

DataBags == {EmptyDict, SampleData, GoodData, BadData, TextUtilData}

Projects == [id : Ids, data : DataBags]

BatchesOfLen(n) == [1..n -> Projects]

-----------------------------------------------------------------------------
(* The engine as a state machine.  metrics_cache is the dict of the        *)
(* instance; log is the history of calculate_metrics invocations; now is   *)
(* the clock; last is the latest call of a public method with its result   *)
(* and the cache as it was before the call; input is the argument drawn    *)
(* for the single-call specification SpecPure.                             *)

NoInput == [op |-> "none"]

Call(op, id, data, projects, ret) ==
  [op |-> op, id |-> id, data |-> data, projects |-> projects, ret |-> ret,
   pre_cache |-> metrics_cache, pre_len |-> Len(log)]

EngineState == [cache |-> metrics_cache, log |-> log, now |-> now]

Init ==
  /\ metrics_cache = EmptyDict
  /\ log = <<>>
  /\ now = 1
  /\ last = [op |-> "init", id |-> "", data |-> EmptyDict, projects |-> <<>>,
             ret |-> None, pre_cache |-> EmptyDict, pre_len |-> 0]
  /\ input = NoInput

(* A public method returns: r is its effect on the engine and its result. *)
Returns(r, op, id, data, projects) ==
  /\ metrics_cache' = r.st.cache
  /\ log' = r.st.log
  /\ now' = r.st.now
  /\ last' = Call(op, id, data, projects, r.ret)

CalculateMetrics(project_id, kwargs) ==
  /\ Len(log) < MaxCalls
  /\ Returns(RunMetrics(EngineState, project_id, kwargs),
             "calculate_metrics", project_id, kwargs, <<>>)
  /\ UNCHANGED input

GetProjectMetrics(project_id) ==
  /\ last' = Call("get_project_metrics", project_id, EmptyDict, <<>>,
                  CacheGet(metrics_cache, project_id))
  /\ UNCHANGED <<metrics_cache, log, now, input>>

CalculatePortfolioMetrics(projects) ==
  /\ Len(log) + Len(projects) <= MaxCalls
  /\ Returns(RunPortfolio(EngineState, projects),
             "calculate_portfolio_metrics", "", EmptyDict, projects)
  /\ UNCHANGED input

Next ==
  \/ \E p \in Projects : CalculateMetrics(p.id, p.data)
  \/ \E project_id \in Ids : GetProjectMetrics(project_id)
  \/ \E n \in 0..MaxBatch : \E projects \in BatchesOfLen(n) :
       CalculatePortfolioMetrics(projects)

Spec == Init /\ [][Next]_vars

-----------------------------------------------------------------------------
(* Single calls of the calculators on a fresh instance: Init draws the     *)
(* arguments, one action per method applies it.                            *)

Variances == {Num(-50), Num(-3), Num(0), Num(2), Num(12), Str}

FactorValues == {Num(-50), Num(0), Num(25), Num(100), Num(300), Str}

FactorLists == UNION {[1..n -> FactorValues] : n \in 0..MaxFactors}

SpiValues == {0, 849, 850, 949, 950, 999, 1000, 1050}

CpiValues == {0, 749, 750, 899, 900, 999, 1000, 1020}

RiskValues ==
  {-200, 0, 100, 249, 250, 251, 499, 500, 501, 700, 800, 900, 1000, 1200}

Amounts == {Num(0), Num(100), Num(750), Num(-5), Str}

AmountKeys == {"earned_value", "planned_value", "actual_cost"}

AmountBags == UNION {[S -> Amounts] : S \in SUBSET AmountKeys}

PureInputs ==
  [op : {"calculate_risk_score"}, schedule_variance : Variances,
   cost_variance : Variances, risk_factors : FactorLists]
  \cup [op : {"calculate_project_health"}, spi : SpiValues, cpi : CpiValues,
        risk_score : RiskValues]
  \cup [op : {"calculate_cost_performance_index"}, earned_value : Amounts,
        actual_cost : Amounts]
  \cup [op : {"calculate_metrics"}, id : Ids, data : AmountBags]

InitPure ==
  /\ metrics_cache = EmptyDict
  /\ log = <<>>
  /\ now = 1
  /\ last = [op |-> "init", id |-> "", data |-> EmptyDict, projects |-> <<>>,
             ret |-> None, pre_cache |-> EmptyDict, pre_len |-> 0]
  /\ input \in PureInputs

RiskScoreCall ==
  /\ last.op = "init"
  /\ input.op = "calculate_risk_score"
  /\ last' = Call(input.op, "", input, <<>>,
                  calculate_risk_score(input.schedule_variance,
                                       input.cost_variance,
                                       input.risk_factors))
  /\ UNCHANGED <<metrics_cache, log, now, input>>

ProjectHealthCall ==
  /\ last.op = "init"
  /\ input.op = "calculate_project_health"
  /\ last' = Call(input.op, "", input, <<>>,
                  calculate_project_health(input.spi, input.cpi,
                                           input.risk_score))
  /\ UNCHANGED <<metrics_cache, log, now, input>>

(* calculate_project_health on a risk score calculate_risk_score returned. *)
HealthOfRiskCall ==
  /\ last.op = "calculate_risk_score"
  /\ IsNum(last.ret)
  /\ \E spi \in {0, 1000} : \E cpi \in {0, 1000} :
       last' = Call("calculate_project_health", "",
                    [op |-> "calculate_project_health", spi |-> spi,
                     cpi |-> cpi, risk_score |-> Val(last.ret)],
                    <<>>,
                    calculate_project_health(spi, cpi, Val(last.ret)))
  /\ UNCHANGED <<metrics_cache, log, now, input>>

CostIndexCall ==
  /\ last.op = "init"
  /\ input.op = "calculate_cost_performance_index"
  /\ last' = Call(input.op, "", input, <<>>,
                  calculate_cost_performance_index(input.earned_value,
                                                   input.actual_cost))
  /\ UNCHANGED <<metrics_cache, log, now, input>>

MetricsCall ==
  /\ last.op = "init"
  /\ input.op = "calculate_metrics"
  /\ CalculateMetrics(input.id, input.data)

NextPure ==
  \/ RiskScoreCall
  \/ ProjectHealthCall
  \/ HealthOfRiskCall
  \/ CostIndexCall
  \/ MetricsCall

SpecPure == InitPure /\ [][NextPure]_vars

-----------------------------------------------------------------------------
(* Vocabulary of the properties *)

Succeeded(e) == e.ret # Raised

(* The record of the most recent successful invocation for id in the      *)
(* history h, None when there is none.                                     *)
RECURSIVE LatestRecord(_, _)
LatestRecord(h, id) ==
  IF h = <<>> THEN None
  ELSE IF h[Len(h)].id = id /\ Succeeded(h[Len(h)]) THEN h[Len(h)].ret
  ELSE LatestRecord(SubSeq(h, 1, Len(h) - 1), id)

SameButTime(a, b) ==
  [a EXCEPT !.calculated_at = 0] = [b EXCEPT !.calculated_at = 0]

(* calculate_metrics raises on the project p. *)
Fails(p) == ComputeMetrics(p.id, p.data, 0) = Raised

SomeFails(projects) == \E k \in 1..Len(projects) : Fails(projects[k])

FirstFail(projects) ==
  CHOOSE k \in 1..Len(projects) :
    Fails(projects[k]) /\ \A j \in 1..(k - 1) : ~Fails(projects[j])

IsPortfolioCall == last.op = "calculate_portfolio_metrics"

(* The invocations the latest call made, in order. *)
Made == SubSeq(log, last.pre_len + 1, Len(log))

(* The invocations made are those of projects[1..n], in input order. *)
MadeFor(projects, n) ==
  /\ Len(Made) = n
  /\ \A j \in 1..n : Made[j].id = projects[j].id
                     /\ Made[j].data = projects[j].data

-----------------------------------------------------------------------------
(* C1: after any sequence of calculate_metrics and                         *)
(* calculate_portfolio_metrics calls, the cache holds for every project id *)
(* exactly the record of the most recent successful calculate_metrics      *)
(* invocation for that id, and get_project_metrics returns it; it returns  *)
(* None if and only if no invocation for that id has succeeded.  (An entry *)
(* therefore never disappears: the history only grows.)                    *)
C1_LastWriteWins ==
  /\ \A id \in Ids : CacheGet(metrics_cache, id) = LatestRecord(log, id)
  /\ last.op = "get_project_metrics" =>
       /\ last.ret = LatestRecord(log, last.id)
       /\ last.ret = None <=>
            ~\E i \in 1..Len(log) : log[i].id = last.id /\ Succeeded(log[i])

(* get_project_metrics after two successful computations for the same id  *)
(* on different data: it returns the second's record.                      *)
C1_Witness ==
  /\ last.op = "get_project_metrics"
  /\ last.ret # None
  /\ \E i, j \in 1..Len(log) :
       /\ i < j
       /\ log[i].id = last.id /\ log[j].id = last.id
       /\ Succeeded(log[i]) /\ Succeeded(log[j])
       /\ log[i].data # log[j].data
       /\ last.ret = log[j].ret

(* C2: calculate_risk_score returns a value in [0, 100] (0..1000 tenths)   *)
(* for every schedule_variance, cost_variance and risk_factors list, and   *)
(* so does the risk_score of every cached ProjectMetrics.                  *)
C2_RiskScoreInRange ==
  /\ (last.op = "calculate_risk_score" /\ IsNum(last.ret)) =>
       (0 <= Val(last.ret) /\ Val(last.ret) <= 1000)
  /\ \A id \in DOMAIN metrics_cache :
       0 <= metrics_cache[id].risk_score /\ metrics_cache[id].risk_score <= 1000

(* The score of the claim, in thousandths of a point. *)
C3_Score(spi, cpi, risk_score) ==
  1000 * ((IF spi >= 1000 THEN 40 ELSE IF spi >= 950 THEN 25
           ELSE IF spi >= 850 THEN 10 ELSE 0)
          + (IF cpi >= 1000 THEN 40 ELSE IF cpi >= 900 THEN 25
             ELSE IF cpi >= 750 THEN 10 ELSE 0))
  + Max(0, 20 * (1000 - risk_score))

(* C3: calculate_project_health returns Green iff score >= 75, Yellow iff  *)
(* 50 <= score < 75 and Red iff score < 50, for the score of the claim:    *)
(* tier points with inclusive lower bounds plus                            *)
(* max(0, 20 * (1 - risk_score / 100)).                                    *)
C3_HealthTiers ==
  last.op = "calculate_project_health" =>
    /\ last.ret.status = "Green" <=>
         C3_Score(last.data.spi, last.data.cpi, last.data.risk_score) >= 75000
    /\ last.ret.status = "Yellow" <=>
         /\ C3_Score(last.data.spi, last.data.cpi, last.data.risk_score) >= 50000
         /\ C3_Score(last.data.spi, last.data.cpi, last.data.risk_score) < 75000
    /\ last.ret.status = "Red" <=>
         C3_Score(last.data.spi, last.data.cpi, last.data.risk_score) < 50000

(* A score of exactly 75 (40 + 25 + 10) is Green. *)
C3_Witness ==
  /\ last.op = "calculate_project_health"
  /\ C3_Score(last.data.spi, last.data.cpi, last.data.risk_score) = 75000
  /\ last.data.spi = 1000 /\ last.data.cpi = 900 /\ last.data.risk_score = 500
  /\ last.ret.status = "Green"

(* C4, on the risk scores calculate_risk_score returns:                    *)
(* calculate_project_health called with such a risk score returns a        *)
(* percentage in 0..100, and the risk adjustment is at most 20 points      *)
(* (1000 fiftieths).                                                       *)
C4_PercentageInRange ==
  (last.op = "calculate_project_health"
   /\ input.op = "calculate_risk_score") =>
    /\ last.ret.percentage \in 0..100
    /\ RiskAdjustment(last.data.risk_score) <= 1000

(* C5: calculate_cost_performance_index with actual_cost = 0 returns 0.0;  *)
(* calculate_metrics produces CPI 1.0 when actual_cost is absent or not    *)
(* > 0, and earned_value / actual_cost rounded to 3 decimals (the nearest  *)
(* thousandth) when actual_cost > 0; its CPI is never the 0.0 sentinel     *)
(* with a zero actual_cost.                                                *)
C5_CpiAsymmetry ==
  /\ (last.op = "calculate_cost_performance_index"
      /\ last.data.actual_cost = Num(0)) => last.ret = Num(0)
  /\ (last.op = "calculate_metrics" /\ last.ret # Raised) =>
       IF "actual_cost" \notin DOMAIN last.data
          \/ Val(Get(last.data, "actual_cost", Num(0))) <= 0
       THEN last.ret.cost_performance_index = 1000
       ELSE 2 * Abs(1000 * Val(Get(last.data, "earned_value", Num(0)))
                    - last.ret.cost_performance_index
                      * Val(last.data.actual_cost))
              <= Val(last.data.actual_cost)

(* calculate_metrics with an explicit actual_cost of 0 and a positive      *)
(* earned_value: the record carries CPI 1.0.                               *)
C5_Witness ==
  /\ last.op = "calculate_metrics"
  /\ last.ret # Raised
  /\ "actual_cost" \in DOMAIN last.data
  /\ last.data.actual_cost = Num(0)
  /\ Get(last.data, "earned_value", Num(0)) = Num(750)
  /\ last.ret.cost_performance_index = 1000

(* C6: when calculate_metrics fails for a project of the input sequence,  *)
(* calculate_portfolio_metrics raises (it returns no summary, not even a   *)
(* partial one), and the invocations it made are those of the projects up  *)
(* to and including the first failing one, in order: none after it.        *)
C6_AllOrNothing ==
  (IsPortfolioCall /\ SomeFails(last.projects)) =>
    /\ last.ret = Raised
    /\ MadeFor(last.projects, FirstFail(last.projects))
    /\ ~Succeeded(log[Len(log)])
    /\ \A j \in 1..(Len(Made) - 1) : Succeeded(Made[j])

(* A batch of two whose first project fails and whose second would not. *)
C6_Witness ==
  /\ IsPortfolioCall
  /\ Len(last.projects) = 2
  /\ Fails(last.projects[1])
  /\ ~Fails(last.projects[2])
  /\ last.ret = Raised

(* C7: two calculate_metrics invocations with the same id and the same     *)
(* fields, whatever was called before or in between, both succeed or both  *)
(* fail, and their records are equal in every field but calculated_at;     *)
(* after the second the cache holds, for that id, the second's record      *)
(* (until a later invocation for the id succeeds).                         *)
C7_Idempotent ==
  \A i, j \in 1..Len(log) :
    (i < j /\ log[i].id = log[j].id /\ log[i].data = log[j].data) =>
      /\ Succeeded(log[i]) <=> Succeeded(log[j])
      /\ Succeeded(log[j]) =>
           /\ SameButTime(log[i].ret, log[j].ret)
           /\ (~\E k \in (j + 1)..Len(log) :
                   log[k].id = log[j].id /\ Succeeded(log[k])) =>
                (/\ log[j].id \in DOMAIN metrics_cache
                 /\ metrics_cache[log[j].id] = log[j].ret)

(* The same successful call twice with another computation for the same id *)
(* on other data in between; the two records differ in calculated_at only. *)
C7_Witness ==
  \E i, j, k \in 1..Len(log) :
    /\ i < k /\ k < j
    /\ log[i].id = log[j].id /\ log[i].data = log[j].data
    /\ log[k].id = log[i].id /\ log[k].data # log[i].data
    /\ Succeeded(log[i]) /\ Succeeded(log[k]) /\ Succeeded(log[j])
    /\ log[k].ret.risk_score # log[i].ret.risk_score
    /\ log[i].ret.calculated_at # log[j].ret.calculated_at
    /\ metrics_cache[log[j].id] = log[j].ret

RECURSIVE SumOf(_, _)
SumOf(h, field) ==
  IF h = <<>> THEN 0 ELSE h[1].ret[field] + SumOf(Tail(h), field)

RECURSIVE SumOfUtilization(_)
SumOfUtilization(h) ==
  IF h = <<>> THEN 0
  ELSE Val(h[1].ret.team_utilization) + SumOfUtilization(Tail(h))

(* The fraction avg is the mean of n values whose sum is total. *)
IsMean(avg, total, n) == avg.den > 0 /\ avg.num * n = total * avg.den

(* The summary of the claim for a batch all of whose projects computed. *)
C8_Summary(ret, projects) ==
  /\ ret # Raised
  /\ ret.total_projects = Len(projects)
  /\ ret.at_risk_count =
       Cardinality({j \in 1..Len(Made) : Made[j].ret.health_status = "Red"})
  /\ 0 <= ret.at_risk_count /\ ret.at_risk_count <= ret.total_projects
  /\ IsMean(ret.avg_health_score, SumOf(Made, "risk_score"), Len(projects))
  /\ IsMean(ret.avg_budget_utilization, SumOfUtilization(Made), Len(projects))
  /\ IsMean(ret.avg_schedule_health,
            SumOf(Made, "schedule_performance_index"), Len(projects))

NumericUtilization(p) == IsNum(Get(p.data, "team_utilization", Num(0)))

(* C8 as stated: for every non-empty batch on which every project computes *)
(* successfully, calculate_metrics runs once per element in input order    *)
(* and the summary holds the count, the Red count and the three means.     *)
C8_Original ==
  (IsPortfolioCall /\ last.projects # <<>> /\ ~SomeFails(last.projects)) =>
    /\ MadeFor(last.projects, Len(last.projects))
    /\ C8_Summary(last.ret, last.projects)

(* C8 as amended: the same, for the batches whose team_utilization values  *)
(* are all numbers.                                                        *)
C8_PortfolioSummary ==
  (/\ IsPortfolioCall
   /\ last.projects # <<>>
   /\ ~SomeFails(last.projects)
   /\ \A k \in 1..Len(last.projects) : NumericUtilization(last.projects[k])) =>
    /\ MadeFor(last.projects, Len(last.projects))
    /\ C8_Summary(last.ret, last.projects)

(* A batch of two elements with the same id, one of them Red: the summary  *)
(* counts two projects, one at risk.                                       *)
C8_Witness ==
  /\ IsPortfolioCall
  /\ Len(last.projects) = 2
  /\ last.projects[1].id = last.projects[2].id
  /\ last.ret # Raised
  /\ last.ret.total_projects = 2
  /\ last.ret.at_risk_count = 1
  /\ last.ret.avg_health_score = [num |-> 350, den |-> 1]

(* C9: calculate_portfolio_metrics on an empty sequence returns an empty   *)
(* mapping (no total_projects, no average) and does not raise, whatever    *)
(* the cache holds; it computes nothing.                                   *)
C9_EmptyPortfolio ==
  (IsPortfolioCall /\ last.projects = <<>>) =>
    /\ last.ret # Raised
    /\ DOMAIN last.ret = {}
    /\ metrics_cache = last.pre_cache
    /\ Made = <<>>

C9_Witness ==
  /\ IsPortfolioCall
  /\ last.projects = <<>>
  /\ last.ret = EmptyDict
  /\ Cardinality(DOMAIN last.pre_cache) = 2

(* The positions before k at which id occurs in projects. *)
Before(projects, k, id) == {j \in 1..(k - 1) : projects[j].id = id}

Latest(S) == CHOOSE j \in S : \A i \in S : i <= j

====
